---- MODULE Spec2Model ----
(***************************************************************************)
(* A model of the mubsub Channel (src/unnamed/part_001): a publish /       *)
(* subscribe channel on top of a capped MongoDB collection read through a  *)
(* tailable cursor.                                                        *)
(*                                                                         *)
(* The Channel object, its EventEmitter listeners and the promise chains   *)
(* it starts (create, listen/latest, close, publish) are the state; every  *)
(* callback of the source is one action.  The store (collection, cursors,  *)
(* connection) is the environment: its answers arrive as separate steps,   *)
(* in any order the driver can produce.  The event loop runs a promise     *)
(* reaction that is due before it takes the next I/O callback or the next  *)
(* call of the application (MicrotaskDue).                                  *)
(***************************************************************************)
EXTENDS Integers, Sequences, FiniteSets, TLC

\* ------------------------------------------------------------------ bounds
MaxPre == 1          \* entries already in the log when the Channel is built
MaxOps == 3          \* publish(), close(), foreign appends, cursor kills and
                     \* connection teardown over the channel's life, in total
MaxRouterPublish == 2 \* publish() calls where only routing is exercised
MaxCloseCalls == 1   \* close() calls where only the handles are exercised
MaxSubs == 2         \* subscribe() calls
MaxUnsubCalls == 2   \* unsubscribe() calls
MaxExists == 1       \* 'collection already exists' answers of the store

\* ------------------------------------------------------------- vocabulary
Undefined == 0                     \* JS undefined where a document is expected
Null == "null"                     \* this.collection unset (undefined or null)
Handle == "handle"                 \* this.collection set
NoEvent == ""                      \* a document without an event property
EventNames == {"foo", "bar"}       \* names the application publishes under
Wildcard == "message"              \* the name subscribe(callback) registers on
RawName == "document"              \* emitted for every raw document
SubNames == EventNames \cup {Wildcard, RawName}
PubNames == EventNames \cup {Wildcard}
Callbacks == {"f", "boom"}         \* callback identities
Throws(cb) == cb = "boom"          \* "boom" throws when invoked

VARIABLES
    conn,        \* the shared connection: [db, destroyed]
    log,         \* the capped collection: sequence of documents, _id = index
    opts,        \* what the application passed / set up at construction
    chan,        \* the Channel object and the promise chains it has started
    listeners,   \* EventEmitter registrations: name -> sequence of callbacks
    handles,     \* the objects subscribe() returned
    hist         \* history: what an observer of the channel has seen

vars == <<conn, log, opts, chan, listeners, handles, hist>>

\* ---------------------------------------------------------------- helpers
RemoveAt(s, i) == [j \in 1..(Len(s) - 1) |-> IF j < i THEN s[j] ELSE s[j + 1]]

Max(S) == CHOOSE x \in S : \A y \in S : y <= x
Min(S) == CHOOSE x \in S : \A y \in S : x <= y

\* The index of the last occurrence of cb in s, 0 when absent.
LastIndexOf(s, cb) ==
    LET idx == {i \in 1..Len(s) : s[i] = cb}
    IN IF idx = {} THEN 0 ELSE Max(idx)

\* ------------------------------------------------------ the anchor query
\* collection.find(latest ? { _id: latest._id } : null): the matching _ids.
Find(l, latest) ==
    IF latest # Undefined THEN {p \in 1..Len(l) : p = latest} ELSE 1..Len(l)

\* .sort({ $natural: -1 }).limit(1): newest first, at most one.
SortLimit1(ids) == IF ids = {} THEN <<>> ELSE <<Max(ids)>>

\* cursor.toArray() called without a callback returns a Promise of the array.
ToArray(docs) == [promise |-> TRUE, value |-> docs]

\* x[0]: the first element of an array; a Promise has no property "0".
Index0(x) ==
    IF x.promise THEN Undefined
    ELSE IF x.value = <<>> THEN Undefined ELSE x.value[1]

\* A latest() that takes whatever the query gave for a document.
DocNeverMissing(doc) == FALSE

\* if (!doc)
DocMissing(doc) == doc = Undefined

\* ------------------------------------------------------------ constructor
\* this.recreate = options.recreate ? options.recreate : true
RecreateOption(opt) == IF opt = "true" THEN TRUE ELSE TRUE

\* Channel.prototype.create: ask the store for the collection now, or once
\* the connection emits 'connect'.
Create(c, db) ==
    IF db THEN [c EXCEPT !.creating = @ + 1]
          ELSE [c EXCEPT !.createWait = @ + 1]

\* Channel.prototype.close, up to the call of cursor.close(): the returned
\* promise is pending (an entry of closes) or already resolved.
Close(c, owner) ==
    LET c1 == [c EXCEPT !.closed = TRUE]
    IN IF c.cursor # 0
         THEN [c1 EXCEPT !.closes = Append(@, [owner |-> owner, cur |-> c.cursor])]
         ELSE c1

\* latest(), first then(): runs the query on this.collection.  It is the
\* first reaction queued after the promise resolves, so it runs before any
\* other callback can touch this.collection.
LatestFind(c, l) ==
    IF c.collection = Null
      THEN [c EXCEPT !.lstate = "rejected"]                      \* TypeError
      ELSE [c EXCEPT !.ldoc = Index0(ToArray(SortLimit1(Find(l, c.llatest)))),
                     !.lstate = "then"]

\* Channel.prototype.latest, the promise executor: resolved at once when the
\* collection is there, else on the next 'collection' event.
Latest(c, latest, l) ==
    LET c1 == [c EXCEPT !.llatest = latest,
                        !.ldoc = Undefined,
                        !.lanchor = Undefined]
    IN IF c.collection = Handle
         THEN LatestFind(c1, l)
         ELSE [c1 EXCEPT !.lstate = "waitColl"]

\* Channel.prototype.listen, the synchronous part: Promise.all of latest()
\* and close().
Listen(c, latest, l) ==
    LET c1 == Latest(c, latest, l)
        c2 == Close(c1, "listen")
    IN [c2 EXCEPT !.lclose = IF c1.cursor # 0 THEN "pending" ELSE "resolved"]

\* function Channel(connection, name, options)
Channel(cn, o, l) ==
    LET c0 == [recreate |-> RecreateOption(o.recreate),
               closed |-> TRUE,
               collection |-> Null,
               cursor |-> 0,
               cursors |-> <<>>,
               creating |-> 0,
               createWait |-> 0,
               lstate |-> "idle",
               llatest |-> Undefined,
               ldoc |-> Undefined,
               lanchor |-> Undefined,
               lclose |-> "resolved",
               closes |-> <<>>,
               pubs |-> <<>>]
    IN Listen(Create(c0, cn.db), Undefined, l)

NoHistory(k) ==
    [pre |-> k,            \* length of the log at construction
     calls |-> <<>>,       \* subscriber invocations, in order
     ready |-> 0,          \* 'ready' signals emitted
     errors |-> 0,         \* 'error' signals an observer received
     uncaught |-> 0,       \* exceptions that left a callback of the channel
     breaks |-> 0,         \* cursors killed by the store
     logAtBreak |-> 0,     \* Len(log) when the store last killed a cursor
     opened |-> 0,         \* cursors opened
     closeCalls |-> 0,     \* close() calls by the application
     closeResolved |-> 0,  \* of which the promise has resolved
     callsAtClose |-> 0,   \* Len(calls) at the first close() call
     exists |-> 0,         \* 'collection already exists' answers
     createFailed |-> FALSE,
     insertFailed |-> FALSE,
     others |-> 0,
     unsubs |-> 0,
     \* the listen() in flight asked for its anchor with cursor.close() pending
     anchorEarly |-> FALSE,
     openedEarly |-> 0,    \* cursors opened at such an anchor
     \* registrations per name at the first publish() call
     snap |-> [n \in SubNames |-> 0]]

\* The state right after `new Channel(...)` and the application's
\* synchronous set-up (example/subscribe.js: on('error'), subscribe).
InitWith(dbs, ks, recs, eos, ls, hs) ==
    /\ \E db \in dbs : conn = [db |-> db, destroyed |-> FALSE]
    /\ \E k \in ks :
         /\ log = [i \in 1..k |-> [event |-> "foo", kind |-> "pre", id |-> 0]]
         /\ hist = NoHistory(k)
    /\ \E r \in recs, eo \in eos : opts = [recreate |-> r, errorObserver |-> eo]
    /\ chan = Channel(conn, opts, log)
    /\ listeners = ls
    /\ handles = hs

NoListeners == [n \in SubNames |-> <<>>]

\* subscribe('foo', f); subscribe(f); on('document', f)
StdHandles == <<[name |-> "foo", cb |-> "f", unsubs |-> 0],
                [name |-> Wildcard, cb |-> "f", unsubs |-> 0],
                [name |-> RawName, cb |-> "f", unsubs |-> 0]>>
StdListeners == [n \in SubNames |->
                   IF n \in {"foo", Wildcard, RawName} THEN <<"f">> ELSE <<>>]

\* new Channel(connection, name) with no options
Init ==
    InitWith(BOOLEAN, 0..MaxPre, {"unset"}, BOOLEAN, StdListeners, StdHandles)

\* new Channel(connection, name, { recreate: false })
InitNoRecreate ==
    InitWith(BOOLEAN, 0..MaxPre, {"false"}, BOOLEAN, StdListeners, StdHandles)

\* new Channel(connection, name, { recreate: true }), errors observed
InitLive ==
    InitWith(BOOLEAN, 0..MaxPre, {"true"}, {TRUE}, StdListeners, StdHandles)

\* ------------------------------------------------------------ event loop
\* A promise reaction is due: the second then() of latest(), the then() of
\* listen()'s Promise.all, or the then() of a publish() whose ready()
\* resolved.  I/O callbacks and calls of the application wait for it.
MicrotaskDue ==
    \/ chan.lstate = "then"
    \/ chan.lstate = "resolved" /\ chan.lclose = "resolved"
    \/ \E i \in DOMAIN chan.pubs : chan.pubs[i].state = "then"

\* ------------------------------------------------------------ connection
\* The connection emits 'connect': every waiting create() runs.
Connect ==
    /\ ~MicrotaskDue
    /\ ~conn.db
    /\ conn' = [conn EXCEPT !.db = TRUE]
    /\ chan' = [chan EXCEPT !.creating = @ + chan.createWait, !.createWait = 0]
    /\ UNCHANGED <<log, opts, listeners, handles, hist>>

\* The connection is torn down (connection.destroyed).
DestroyConnection ==
    /\ ~MicrotaskDue
    /\ conn.db
    /\ ~conn.destroyed
    /\ conn' = [conn EXCEPT !.destroyed = TRUE]
    /\ UNCHANGED <<log, opts, chan, listeners, handles, hist>>

\* A channel that swallows the error instead of emitting it.
EmitErrorDropped(h, observed) == h

\* this.emit('error', err): with no 'error' listener EventEmitter throws.
EmitError(h, observed) ==
    IF observed THEN [h EXCEPT !.errors = @ + 1]
                ELSE [h EXCEPT !.uncaught = @ + 1]

\* A createCollection callback that reports 'collection already exists'
\* like any other error.
CreateCallbackStrict(outcome) ==
    /\ ~MicrotaskDue
    /\ chan.creating > 0
    /\ IF outcome = "ok"
         THEN /\ LET c1 == [chan EXCEPT !.creating = @ - 1, !.collection = Handle]
                 IN chan' = IF chan.lstate = "waitColl" THEN LatestFind(c1, log)
                                                       ELSE c1
              /\ hist' = hist
         ELSE /\ outcome = "exists" => hist.exists < MaxExists
              /\ chan' = [chan EXCEPT !.creating = @ - 1]
              /\ hist' = [EmitError(hist, opts.errorObserver) EXCEPT
                             !.exists = @ + (IF outcome = "exists" THEN 1 ELSE 0),
                             !.createFailed = (outcome = "error") \/ @]
    /\ UNCHANGED <<conn, log, opts, listeners, handles>>

\* The callback of createCollection.
CreateCallback(outcome) ==
    /\ ~MicrotaskDue
    /\ chan.creating > 0
    /\ CASE outcome = "ok" ->
              \* self.collection = collection; self.emit('collection')
              /\ LET c1 == [chan EXCEPT !.creating = @ - 1, !.collection = Handle]
                 IN chan' = IF chan.lstate = "waitColl" THEN LatestFind(c1, log)
                                                       ELSE c1
              /\ hist' = hist
         [] outcome = "exists" ->
              \* return self.create()
              /\ hist.exists < MaxExists
              /\ chan' = Create([chan EXCEPT !.creating = @ - 1], conn.db)
              /\ hist' = [hist EXCEPT !.exists = @ + 1]
         [] outcome = "error" ->
              \* return self.emit('error', err)
              /\ chan' = [chan EXCEPT !.creating = @ - 1]
              /\ hist' = [EmitError(hist, opts.errorObserver) EXCEPT !.createFailed = TRUE]
    /\ UNCHANGED <<conn, log, opts, listeners, handles>>

\* ------------------------------------------------------- Position Tracker
\* latest(), second then(): the document found, or insertOne of a dummy.
LatestThen ==
    /\ chan.lstate = "then"
    /\ IF DocMissing(chan.ldoc)
         THEN IF chan.collection = Null
                THEN chan' = [chan EXCEPT !.lstate = "rejected"]  \* TypeError
                ELSE chan' = [chan EXCEPT !.lstate = "inserting"]
         ELSE chan' = [chan EXCEPT !.lanchor = chan.ldoc, !.lstate = "resolved"]
    /\ hist' = [hist EXCEPT !.anchorEarly = (chan.lclose = "pending")]
    /\ UNCHANGED <<conn, log, opts, listeners, handles>>

\* The answer to insertOne({ dummy: true }): res.ops[0], or a rejection.
DummyInserted(ok) ==
    /\ ~MicrotaskDue
    /\ chan.lstate = "inserting"
    /\ IF ok
         THEN /\ log' = Append(log, [event |-> NoEvent, kind |-> "boot", id |-> 0])
              /\ chan' = [chan EXCEPT !.lanchor = Len(log) + 1, !.lstate = "resolved"]
              /\ hist' = hist
         ELSE /\ log' = log
              /\ chan' = [chan EXCEPT !.lstate = "rejected"]
              /\ hist' = [hist EXCEPT !.insertFailed = TRUE]
    /\ UNCHANGED <<conn, opts, listeners, handles>>

\* --------------------------------------------------------------- Tail Loop
\* A tail cursor opened without the $gt filter.
CursorFilterAll(anchor, p) == TRUE

\* collection.find({ _id: { $gt: _latest._id } }, cursorOptions)
CursorFilter(anchor, p) == p > anchor

\* listen(), the then() of Promise.all: open the cursor, emit 'ready'.
ListenThen ==
    /\ chan.lstate = "resolved"
    /\ chan.lclose = "resolved"
    /\ IF chan.collection = Null \/ chan.lanchor = Undefined
         THEN \* this.closed = false runs, then this.collection.find throws
              /\ chan' = [chan EXCEPT !.closed = FALSE, !.lstate = "rejected"]
              /\ hist' = hist
         ELSE /\ chan' = [chan EXCEPT
                     !.closed = FALSE,
                     !.cursors = Append(@, [anchor |-> chan.lanchor, next |-> 0,
                                            open |-> TRUE]),
                     !.cursor = Len(chan.cursors) + 1,
                     !.lstate = "idle",
                     \* emit('ready'): the once('ready') of every waiting publish
                     !.pubs = [i \in DOMAIN @ |->
                                 IF @[i].state = "waitReady"
                                   THEN [@[i] EXCEPT !.state = "then"] ELSE @[i]]]
              /\ hist' = [hist EXCEPT
                     !.ready = @ + 1,
                     !.opened = @ + 1,
                     !.openedEarly = @ + (IF hist.anchorEarly THEN 1 ELSE 0)]
    /\ UNCHANGED <<conn, log, opts, listeners, handles>>

\* EventEmitter.emit(ev, ...): the listeners of ev in registration order; a
\* listener that throws ends the emit and the exception leaves it.
RECURSIVE Invoke(_, _, _, _)
Invoke(ls, ev, pos, idx) ==
    IF ls = <<>> THEN [calls |-> <<>>, thrown |-> FALSE]
    ELSE LET call == [ev |-> ev, cb |-> Head(ls), idx |-> idx, pos |-> pos]
         IN IF Throws(Head(ls))
              THEN [calls |-> <<call>>, thrown |-> TRUE]
              ELSE LET r == Invoke(Tail(ls), ev, pos, idx + 1)
                   IN [calls |-> <<call>> \o r.calls, thrown |-> r.thrown]

Emit(ls, ev, pos) == Invoke(ls[ev], ev, pos, 1)

\* if (doc.event)
HasEvent(doc) == doc.event # NoEvent

\* cursor.on('data', doc => ...)
OnData(c, cn, ls, doc, pos) ==
    IF c.closed \/ cn.destroyed THEN [calls |-> <<>>, thrown |-> FALSE]
    ELSE IF HasEvent(doc)
      THEN LET r1 == Emit(ls, doc.event, pos)
           IN IF r1.thrown THEN r1
              ELSE LET r2 == Emit(ls, Wildcard, pos)
                   IN IF r2.thrown
                        THEN [calls |-> r1.calls \o r2.calls, thrown |-> TRUE]
                        ELSE LET r3 == Emit(ls, RawName, pos)
                             IN [calls |-> r1.calls \o r2.calls \o r3.calls,
                                 thrown |-> r3.thrown]
      ELSE Emit(ls, RawName, pos)

\* The tailable cursor hands the next matching document to the 'data' handler.
Deliver(i) ==
    /\ ~MicrotaskDue
    /\ chan.cursors[i].open
    /\ LET cur == chan.cursors[i]
           cand == {p \in (cur.next + 1)..Len(log) : CursorFilter(cur.anchor, p)}
       IN /\ cand # {}
          /\ LET p == Min(cand)
                 r == OnData(chan, conn, listeners, log[p], p)
             IN /\ chan' = [chan EXCEPT !.cursors[i].next = p]
                /\ hist' = [hist EXCEPT !.calls = @ \o r.calls,
                                        !.uncaught = @ + (IF r.thrown THEN 1 ELSE 0)]
    /\ UNCHANGED <<conn, log, opts, listeners, handles>>

\* cursor.on('close', () => ...), with _latest the anchor the cursor was
\* opened at.  Yields the channel and the history after the handler.
OnClose(c, h, cn, o, l, anchor) ==
    IF c.closed \/ cn.destroyed THEN [chan |-> c, hist |-> h]
    ELSE IF ~o.errorObserver
      THEN [chan |-> c, hist |-> EmitError(h, FALSE)]      \* emit('error') throws
      ELSE [chan |-> IF c.recreate THEN Listen(Create(c, cn.db), anchor, l) ELSE c,
            hist |-> EmitError(h, TRUE)]

\* The store kills an open cursor (collection dropped, connection reset).
BreakCursor(i) ==
    /\ ~MicrotaskDue
    /\ chan.cursors[i].open
    /\ LET c1 == [chan EXCEPT !.cursors[i].open = FALSE]
           r == OnClose(c1, [hist EXCEPT !.breaks = @ + 1,
                                         !.logAtBreak = Len(log)], conn, opts, log,
                        chan.cursors[i].anchor)
       IN /\ chan' = r.chan
          /\ hist' = r.hist
    /\ UNCHANGED <<conn, log, opts, listeners, handles>>

\* ------------------------------------------------------------------- close
\* close() called by the application.
UserClose ==
    /\ ~MicrotaskDue
    /\ chan' = Close(chan, "user")
    /\ hist' = [hist EXCEPT
            !.closeCalls = @ + 1,
            !.closeResolved = @ + (IF chan.cursor = 0 THEN 1 ELSE 0),
            !.callsAtClose = IF hist.closeCalls = 0 THEN Len(hist.calls) ELSE @]
    /\ UNCHANGED <<conn, log, opts, listeners, handles>>

\* cursor.close() completes: the cursor is closed (its 'close' event fires if
\* it was open), then the then() of close() drops both references.  A
\* driver may complete the close within the tick or after a round trip, so
\* this step does not wait for the reactions that are due.
CloseComplete(k) ==
    LET op == chan.closes[k]
        c1 == [chan EXCEPT !.closes = RemoveAt(@, k)]
        r == IF chan.cursors[op.cur].open
               THEN OnClose([c1 EXCEPT !.cursors[op.cur].open = FALSE], hist, conn,
                            opts, log, chan.cursors[op.cur].anchor)
               ELSE [chan |-> c1, hist |-> hist]
        c2 == [r.chan EXCEPT !.collection = Null, !.cursor = 0]
    IN /\ chan' = IF op.owner = "listen" THEN [c2 EXCEPT !.lclose = "resolved"] ELSE c2
       /\ hist' = IF op.owner = "user"
                    THEN [r.hist EXCEPT !.closeResolved = @ + 1] ELSE r.hist
       /\ UNCHANGED <<conn, log, opts, listeners, handles>>

\* ----------------------------------------------------------------- publish
\* ready(): resolved when this.collection is set, else once('ready').
Ready(c) == IF c.collection = Handle THEN "then" ELSE "waitReady"

\* publish(event, message), up to the promise ready() returns.
Publish(ev) ==
    /\ ~MicrotaskDue
    /\ chan' = [chan EXCEPT !.pubs = Append(@,
                   [event |-> ev, state |-> Ready(chan), pos |-> 0,
                    early |-> hist.ready = 0])]
    /\ hist' = IF chan.pubs = <<>>
                 THEN [hist EXCEPT !.snap = [n \in SubNames |-> Len(listeners[n])]]
                 ELSE hist
    /\ UNCHANGED <<conn, log, opts, listeners, handles>>

\* publish(), first then(): this.collection.insertOne(...)
PublishThen(i) ==
    /\ chan.pubs[i].state = "then"
    /\ chan' = [chan EXCEPT !.pubs[i].state =
                   IF chan.collection = Null THEN "rejected" ELSE "inserting"]
    /\ UNCHANGED <<conn, log, opts, listeners, handles, hist>>

\* A publish() that broadcasts a failed insert as an 'error' of the channel.
PublishInsertedBroadcast(i, ok) ==
    /\ ~MicrotaskDue
    /\ chan.pubs[i].state = "inserting"
    /\ IF ok
         THEN /\ log' = Append(log, [event |-> chan.pubs[i].event, kind |-> "pub",
                                     id |-> i])
              /\ chan' = [chan EXCEPT !.pubs[i].state = "resolved",
                                      !.pubs[i].pos = Len(log) + 1]
              /\ hist' = hist
         ELSE /\ log' = log
              /\ chan' = [chan EXCEPT !.pubs[i].state = "rejected"]
              /\ hist' = EmitError(hist, opts.errorObserver)
    /\ UNCHANGED <<conn, opts, listeners, handles>>

\* The answer to insertOne: the stored document (res.ops[0]), or a rejection.
PublishInserted(i, ok) ==
    /\ ~MicrotaskDue
    /\ chan.pubs[i].state = "inserting"
    /\ IF ok
         THEN /\ log' = Append(log, [event |-> chan.pubs[i].event, kind |-> "pub",
                                     id |-> i])
              /\ chan' = [chan EXCEPT !.pubs[i].state = "resolved",
                                      !.pubs[i].pos = Len(log) + 1]
         ELSE /\ log' = log
              /\ chan' = [chan EXCEPT !.pubs[i].state = "rejected"]
    /\ UNCHANGED <<conn, opts, listeners, handles, hist>>

\* Another process sharing the log appends an entry (a publish of its own, or
\* its own dummy).
OtherNames == {NoEvent, "foo"}
OtherAppend(ev) ==
    /\ log' = Append(log, [event |-> ev, kind |-> "other", id |-> 0])
    /\ hist' = [hist EXCEPT !.others = @ + 1]
    /\ UNCHANGED <<conn, opts, chan, listeners, handles>>

\* ------------------------------------------------------------ Event Router
\* subscribe(event, callback); subscribe(callback) registers on 'message'.
Subscribe(name, cb) ==
    /\ ~MicrotaskDue
    /\ listeners' = [listeners EXCEPT ![name] = Append(@, cb)]
    /\ handles' = Append(handles, [name |-> name, cb |-> cb, unsubs |-> 0])
    /\ UNCHANGED <<conn, log, opts, chan, hist>>

\* EventEmitter.removeListener(name, cb): removes at most one instance of cb,
\* the most recently added one.
RemoveListener(ls, name, cb) ==
    LET i == LastIndexOf(ls[name], cb)
    IN IF i = 0 THEN ls ELSE [ls EXCEPT ![name] = RemoveAt(@, i)]

\* handle.unsubscribe()
Unsubscribe(h) ==
    /\ ~MicrotaskDue
    /\ listeners' = RemoveListener(listeners, handles[h].name, handles[h].cb)
    /\ handles' = [handles EXCEPT ![h].unsubs = @ + 1]
    /\ hist' = [hist EXCEPT !.unsubs = @ + 1]
    /\ UNCHANGED <<conn, log, opts, chan>>

\* ---------------------------------------------------------- specifications
\* What the application and the environment have done to the channel so far.
Ops ==
    Len(chan.pubs) + hist.closeCalls + hist.others + hist.breaks
      + (IF conn.destroyed THEN 1 ELSE 0)
MayAct == Ops < MaxOps

\* The channel's life: provisioning, tailing, breakage, recreation, close.
Next ==
    \/ Connect
    \/ MayAct /\ DestroyConnection
    \/ \E o \in {"ok", "exists", "error"} : CreateCallback(o)
    \/ LatestThen
    \/ \E ok \in BOOLEAN : DummyInserted(ok)
    \/ ListenThen
    \/ \E i \in DOMAIN chan.cursors : Deliver(i)
    \/ \E i \in DOMAIN chan.cursors : MayAct /\ BreakCursor(i)
    \/ MayAct /\ UserClose
    \/ \E k \in DOMAIN chan.closes : CloseComplete(k)
    \/ \E ev \in {"foo"} : MayAct /\ Publish(ev)
    \/ \E i \in DOMAIN chan.pubs : PublishThen(i)
    \/ \E i \in DOMAIN chan.pubs, ok \in BOOLEAN : PublishInserted(i, ok)
    \/ \E ev \in OtherNames : MayAct /\ OtherAppend(ev)

Spec == Init /\ [][Next]_vars

SpecNoRecreate == InitNoRecreate /\ [][Next]_vars

\* Provisioning against a store that serves every request, with the steps
\* of the channel's own promise chains and the store's answers fair: the
\* event loop runs every callback that is due.
LiveNext ==
    \/ Connect
    \/ \E o \in {"ok", "exists"} : CreateCallback(o)
    \/ LatestThen
    \/ \E ok \in {TRUE} : DummyInserted(ok)
    \/ ListenThen
    \/ \E i \in DOMAIN chan.cursors : Deliver(i)
    \/ MayAct /\ UserClose
    \/ \E k \in DOMAIN chan.closes : CloseComplete(k)
    \/ \E ev \in {"foo"} : MayAct /\ Publish(ev)
    \/ \E i \in DOMAIN chan.pubs : PublishThen(i)
    \/ \E i \in DOMAIN chan.pubs, ok \in {TRUE} : PublishInserted(i, ok)
    \/ \E ev \in OtherNames : MayAct /\ OtherAppend(ev)

LiveFairness ==
    /\ WF_vars(Connect)
    /\ WF_vars(\E o \in {"ok", "exists"} : CreateCallback(o))
    /\ WF_vars(LatestThen)
    /\ WF_vars(DummyInserted(TRUE))
    /\ WF_vars(ListenThen)
    /\ WF_vars(\E i \in DOMAIN chan.pubs : PublishThen(i))

SpecLive == InitLive /\ [][LiveNext]_vars /\ LiveFairness

\* The Event Router: a channel that starts against a healthy store and an
\* application that subscribes and publishes.
RouterInit ==
    InitWith({TRUE}, {0}, {"unset"}, {TRUE}, NoListeners, <<>>)

RouterNext ==
    \/ \E o \in {"ok"} : CreateCallback(o)
    \/ LatestThen
    \/ \E ok \in {TRUE} : DummyInserted(ok)
    \/ ListenThen
    \/ \E i \in DOMAIN chan.cursors : Deliver(i)
    \/ \E ev \in PubNames : Len(chan.pubs) < MaxRouterPublish /\ Publish(ev)
    \/ \E i \in DOMAIN chan.pubs : PublishThen(i)
    \/ \E i \in DOMAIN chan.pubs, ok \in {TRUE} : PublishInserted(i, ok)
    \/ \E n \in SubNames, cb \in Callbacks : Len(handles) < MaxSubs /\ Subscribe(n, cb)

SpecRouter == RouterInit /\ [][RouterNext]_vars

\* Subscription handles: an application that subscribes, unsubscribes and
\* closes while the channel starts and tails.
HandlesNext ==
    \/ \E o \in {"ok"} : CreateCallback(o)
    \/ LatestThen
    \/ \E ok \in {TRUE} : DummyInserted(ok)
    \/ ListenThen
    \/ hist.closeCalls < MaxCloseCalls /\ UserClose
    \/ \E k \in DOMAIN chan.closes : CloseComplete(k)
    \/ \E n \in SubNames, cb \in Callbacks : Len(handles) < MaxSubs /\ Subscribe(n, cb)
    \/ \E h \in DOMAIN handles : hist.unsubs < MaxUnsubCalls /\ Unsubscribe(h)

SpecHandles == RouterInit /\ [][HandlesNext]_vars

\* ------------------------------------------------------------------ claims
\* The channel is tailing: not closed, and its cursor is an open stream.
Tailing ==
    /\ ~chan.closed
    /\ chan.cursor # 0
    /\ chan.cursors[chan.cursor].open

\* The positions cursor i has handed to the 'data' handler so far.
Streamed(i) ==
    {p \in 1..chan.cursors[i].next : CursorFilter(chan.cursors[i].anchor, p)}

\* Cursor i has nothing left to hand over.
Drained(i) ==
    {p \in (chan.cursors[i].next + 1)..Len(log) :
        CursorFilter(chan.cursors[i].anchor, p)} = {}

Delivered(p, ev) ==
    \E j \in DOMAIN hist.calls : hist.calls[j].pos = p /\ hist.calls[j].ev = ev

\* The log positions at which the k-th listener of name n was invoked.
CallsTo(n, k) ==
    LET sel == SelectSeq(hist.calls, LAMBDA c : c.ev = n /\ c.idx = k)
    IN [j \in DOMAIN sel |-> sel[j].pos]

\* The streamed positions a listener of name n is owed, in log order.
OwedTo(n) ==
    SelectSeq([p \in 1..Len(log) |-> p],
              LAMBDA p : /\ p \in Streamed(1)
                         /\ HasEvent(log[p])
                         /\ (n = Wildcard \/ log[p].event = n))

\* C1: on a tailing channel (never closed, stream unbroken) every listener
\* registered before the first publish has been invoked exactly once for each
\* streamed entry of its name (a wildcard listener: for every entry), in log
\* order, and for no other entry.
C1_OrderedDelivery ==
    chan.cursors # <<>> =>
        \A n \in EventNames \cup {Wildcard} :
            \A k \in 1..hist.snap[n] : CallsTo(n, k) = OwedTo(n)

\* C2: no entry that was in the log when the Channel was constructed is ever
\* handed to a subscriber.
C2_NoOldEntryDelivered ==
    \A j \in DOMAIN hist.calls : hist.calls[j].pos > hist.pre

\* C2 witness: a channel built on a non-empty log has delivered a later entry.
C2_Witness ==
    /\ hist.pre >= 1
    /\ \E j \in DOMAIN hist.calls : hist.calls[j].ev = "foo"

\* An entry without an event name reaches raw-document observers only.
NoDummyRouted ==
    \A j \in DOMAIN hist.calls :
        ~HasEvent(log[hist.calls[j].pos]) => hist.calls[j].ev = RawName

\* C3: a Channel built on an empty log emits ready without any action of the
\* caller, and no bootstrap entry (no entry without an event name) is ever
\* handed to a named-event or wildcard subscriber.
C3_BootstrapReady ==
    /\ (hist.pre = 0) ~> (hist.ready > 0)
    /\ []NoDummyRouted

\* C3 witness: built on an empty log, the channel bootstrapped, became ready
\* and has passed an entry without event name to the raw observer alone.
C3_Witness ==
    /\ hist.pre = 0
    /\ hist.ready > 0
    /\ \E p \in DOMAIN log : log[p].kind = "boot"
    /\ \E j \in DOMAIN hist.calls : ~HasEvent(log[hist.calls[j].pos])

\* The channel has tailed without interference and has caught up with the log.
Quiet ==
    /\ hist.closeCalls = 0
    /\ hist.breaks = 0
    /\ ~conn.destroyed
    /\ Tailing
    /\ Drained(chan.cursor)

\* C4: an entry whose publish() was called before the first ready and whose
\* promise resolved has reached the subscriber of its name once the channel
\* tails and has caught up.
C4_EarlyPublishDelivered ==
    \A i \in DOMAIN chan.pubs :
        (chan.pubs[i].early /\ chan.pubs[i].state = "resolved" /\ Quiet)
            => Delivered(chan.pubs[i].pos, chan.pubs[i].event)

\* The stream broke while errors are observed, the connection is alive, the
\* application has not closed the channel and the store serves every request.
BrokenRecoverable ==
    /\ hist.breaks > 0
    /\ opts.errorObserver
    /\ hist.closeCalls = 0
    /\ ~conn.destroyed
    /\ ~hist.createFailed
    /\ ~hist.insertFailed

\* C5: after such a break the recreation never dies, whatever the order of
\* the creation callback, the cursor close and the anchor lookup, and once
\* the channel tails again and has caught up, every entry published after
\* the break has been delivered.
C5_RecreationResumes ==
    BrokenRecoverable =>
        /\ chan.lstate # "rejected"
        /\ (Tailing /\ Drained(chan.cursor)) =>
               \A p \in (hist.logAtBreak + 1)..Len(log) :
                   log[p].kind = "pub" => Delivered(p, log[p].event)

\* C6: built with recreate: false, a channel whose stream broke starts no new
\* listen and has no open stream.
C6_NoRecreateWhenDisabled ==
    (opts.recreate = "false" /\ hist.breaks > 0) =>
        /\ chan.lstate = "idle"
        /\ \A i \in DOMAIN chan.cursors : ~chan.cursors[i].open

\* C7: once close() has been called no subscriber is invoked any more and the
\* channel is never tailing again.
C7_CloseIsFinal ==
    hist.closeCalls > 0 =>
        /\ Len(hist.calls) = hist.callsAtClose
        /\ ~Tailing

\* C8: every listener registered before the first publish for a streamed
\* entry (under its event name, the wildcard and the raw-document name) has
\* been invoked for it, whether or not another listener threw.
C8_ThrowIsolated ==
    chan.cursors # <<>> =>
        \A p \in Streamed(1) :
            \A n \in (IF HasEvent(log[p]) THEN {log[p].event, Wildcard} ELSE {})
                        \cup {RawName} :
                \A k \in 1..hist.snap[n] :
                    \E j \in DOMAIN hist.calls :
                        /\ hist.calls[j].pos = p
                        /\ hist.calls[j].ev = n
                        /\ hist.calls[j].idx = k

Registered(n, cb) == {i \in DOMAIN listeners[n] : listeners[n][i] = cb}
LiveHandles(n, cb) ==
    {h \in DOMAIN handles :
        handles[h].name = n /\ handles[h].cb = cb /\ handles[h].unsubs = 0}

\* C9: the registrations are exactly those of the handles that were never
\* unsubscribed: unsubscribe() removes its own registration, and calling it
\* again, or after close(), removes nothing else.
C9_UnsubscribeExact ==
    \A n \in SubNames, cb \in Callbacks :
        Cardinality(Registered(n, cb)) = Cardinality(LiveHandles(n, cb))

\* C10: when every close() call has resolved, the channel is closed, holds no
\* stream and, if it ever opened one, no log handle.
C10_CloseIdempotent ==
    (hist.closeCalls > 0 /\ hist.closeResolved = hist.closeCalls) =>
        /\ chan.closed
        /\ chan.cursor = 0
        /\ (hist.opened > 0 => chan.collection = Null)

\* The first creation of the collection failed: createCollection answered
\* with an error other than 'collection already exists' before any stream
\* was opened (a re-creation only follows a break).
ProvisioningFailed ==
    /\ hist.createFailed
    /\ hist.breaks = 0

\* C11: when the creation of the collection fails, the error signal has been
\* emitted, and the channel has emitted no ready, opened no stream and
\* invoked no subscriber.
C11_CreateFailureIsFatal ==
    ProvisioningFailed =>
        /\ hist.errors + hist.uncaught >= 1
        /\ hist.ready = 0
        /\ hist.opened = 0
        /\ chan.cursors = <<>>
        /\ hist.calls = <<>>

\* C11 witness: the creation failed, the observer got the error, and an
\* entry with an event name sits in the log undelivered while a publish()
\* waits.
C11_Witness ==
    /\ ProvisioningFailed
    /\ hist.errors >= 1
    /\ \E p \in DOMAIN log : HasEvent(log[p]) /\ log[p].kind = "other"
    /\ \E i \in DOMAIN chan.pubs : chan.pubs[i].state = "waitReady"

\* The step in which the insertOne of publish() i is answered with a failure:
\* no error signal, and the stream, the closed flag, the subscriptions and
\* the log are what they were.
PublishFailureFrame(i) ==
    (chan.pubs[i].state = "inserting" /\ chan'.pubs[i].state = "rejected") =>
        /\ hist'.errors = hist.errors
        /\ hist'.uncaught = hist.uncaught
        /\ chan'.closed = chan.closed
        /\ chan'.cursor = chan.cursor
        /\ chan'.cursors = chan.cursors
        /\ chan'.collection = chan.collection
        /\ listeners' = listeners
        /\ log' = log

\* A publish() made on the ready channel after a rejected one has reached
\* its subscriber once the channel has caught up.
LaterStillDelivered ==
    \A i \in DOMAIN chan.pubs : \A j \in DOMAIN chan.pubs :
        ( /\ i < j
          /\ chan.pubs[i].state = "rejected"
          /\ ~chan.pubs[j].early
          /\ chan.pubs[j].state = "resolved"
          /\ Quiet )
            => Delivered(chan.pubs[j].pos, chan.pubs[j].event)

\* C12: a failed append of publish() rejects that publish() only: the step
\* emits no error signal and leaves the channel's stream, closed flag and
\* subscriptions unchanged, and later entries are still delivered.
C12_PublishFailureLocal ==
    /\ [][\A i \in DOMAIN chan.pubs : PublishFailureFrame(i)]_vars
    /\ []LaterStillDelivered

\* C12 witness: on an undisturbed tailing channel (the collection is never
\* unset, so the rejection is the store's) a publish() was rejected, no error
\* was signalled, and a later publish() was delivered.
C12_Witness ==
    /\ Quiet
    /\ hist.errors = 0
    /\ hist.uncaught = 0
    /\ \E i \in DOMAIN chan.pubs : \E j \in DOMAIN chan.pubs :
          /\ i < j
          /\ chan.pubs[i].state = "rejected"
          /\ chan.pubs[j].state = "resolved"
          /\ Delivered(chan.pubs[j].pos, chan.pubs[j].event)

OpenStreams == {i \in DOMAIN chan.cursors : chan.cursors[i].open}

\* C13: at most one stream the channel opened is open, and an open stream is
\* the one this.cursor refers to.
C13_SingleReferencedStream ==
    /\ Cardinality(OpenStreams) <= 1
    /\ \A i \in OpenStreams : chan.cursor = i

\* C14: no stream was opened at an anchor that latest() asked the store for
\* (the bootstrap append or the document found) while the close of the
\* previous stream was still pending.
C14_AnchorAfterClose ==
    hist.openedEarly = 0

\* C15: as long as the channel has not emitted its first ready, every
\* publish() made is suspended on that signal and the log holds no entry of
\* a publish().
C15_PublishWaitsForReady ==
    hist.ready = 0 =>
        /\ \A i \in DOMAIN chan.pubs : chan.pubs[i].state = "waitReady"
        /\ \A p \in DOMAIN log : log[p].kind # "pub"

\* C16: a channel built on a log that holds an entry (the log never becomes
\* empty again) takes an existing entry for its anchor and appends no
\* bootstrap entry.
C16_BootstrapOnlyWhenEmpty ==
    hist.pre >= 1 =>
        /\ \A p \in DOMAIN log : log[p].kind # "boot"
        /\ \A i \in DOMAIN chan.cursors : log[chan.cursors[i].anchor].kind # "boot"

\* No subscriber was invoked twice for one entry.
NoRedelivery ==
    \A j \in DOMAIN hist.calls : \A k \in DOMAIN hist.calls :
        (/\ hist.calls[j].pos = hist.calls[k].pos
         /\ hist.calls[j].ev = hist.calls[k].ev
         /\ hist.calls[j].idx = hist.calls[k].idx) => j = k

\* The channel recreated its stream after a break, was never closed by the
\* application, and tails again with nothing left to hand over.
Resumed ==
    /\ hist.breaks > 0
    /\ hist.closeCalls = 0
    /\ ~conn.destroyed
    /\ Tailing
    /\ Drained(chan.cursor)

\* C17: across a recreation no entry is delivered twice, and once the new
\* stream has caught up every named entry after the first anchor, those
\* appended between the break and the reopening included, has been delivered.
C17_RecreationAnchor ==
    /\ NoRedelivery
    /\ Resumed =>
          \A p \in DOMAIN log :
              (p > chan.cursors[1].anchor /\ HasEvent(log[p]))
                  => Delivered(p, log[p].event)

====
